---- MODULE Spec2Model ----
(***************************************************************************)
(* A model of app.py, the Streamlit dashboard over the IGDB games table:   *)
(* the daily dataset cache, the two filter/sort functions, paginate, and   *)
(* the script run that renders the "Popular Games" or the "Upcoming        *)
(* Releases" view from the widgets and the page numbers in session state.  *)
(***************************************************************************)
EXTENDS Integers, Sequences, FiniteSets, TLC

VARIABLES
    \* the pure filter functions, applied to drawn inputs
    f_df, f_fn, f_args, f_out, f_again,
    \* paginate, applied to drawn inputs
    p_df, p_page, p_rows, p_out, p_called,
    \* the dashboard session: what the last script run read, kept and drew
    full_df, tab_choice, popular_widgets, upcoming_widgets, session_state,
    total_games, total_pages, page_label, page_df, event, prev_render,
    \* the dataset cache shared by the sessions' script runs
    c_now, c_ticks, c_table, c_cache, c_lock, c_pc, c_seen, c_last, c_served

f_vars == <<f_df, f_fn, f_args, f_out, f_again>>
p_vars == <<p_df, p_page, p_rows, p_out, p_called>>
ui_vars == <<full_df, tab_choice, popular_widgets, upcoming_widgets, session_state,
             total_games, total_pages, page_label, page_df, event, prev_render>>
c_vars == <<c_now, c_ticks, c_table, c_cache, c_lock, c_pc, c_seen, c_last, c_served>>
vars == <<f_df, f_fn, f_args, f_out, f_again, p_df, p_page, p_rows, p_out, p_called,
          full_df, tab_choice, popular_widgets, upcoming_widgets, session_state,
          total_games, total_pages, page_label, page_df, event, prev_render,
          c_now, c_ticks, c_table, c_cache, c_lock, c_pc, c_seen, c_last, c_served>>

\* The parts of the state a specification does not use stay as they are here.
FilterIdle ==
    /\ f_df = <<>>
    /\ f_fn = "none"
    /\ f_args = [search |-> <<>>]
    /\ f_out = <<>>
    /\ f_again = <<>>

PaginateIdle ==
    /\ p_df = <<>>
    /\ p_page = 1
    /\ p_rows = 1
    /\ p_out = <<>>
    /\ p_called = FALSE

\* No session: nothing loaded, nothing kept, nothing drawn.
SessionIdle ==
    /\ full_df = <<>>
    /\ tab_choice = "none"
    /\ popular_widgets = <<>>
    /\ upcoming_widgets = <<>>
    /\ session_state = <<>>
    /\ total_games = 0
    /\ total_pages = 1
    /\ page_label = <<1, 1>>
    /\ page_df = <<>>
    /\ event = "none"
    /\ prev_render = <<>>

\* No caller of the cache.
CacheIdle ==
    /\ c_now = 0
    /\ c_ticks = 0
    /\ c_table = 1
    /\ c_cache = {}
    /\ c_lock = 0
    /\ c_pc = <<>>
    /\ c_seen = <<>>
    /\ c_last = [how |-> "none"]
    /\ c_served = {}

-----------------------------------------------------------------------------
(* Values *)

\* A null cell of a polars column (rating is nullable).
Null == -1

\* date.today(); dates are day numbers.
Today == 10

ROWS_PER_PAGE == 20

\* Longest dataset drawn for the filter functions.
MaxLen == 3

Max(a, b) == IF a >= b THEN a ELSE b

Min(a, b) == IF a <= b THEN a ELSE b

\* str.to_lowercase() / str.lower(), on one character.
to_lowercase_char(c) ==
    CASE c = "A" -> "a"
      [] c = "B" -> "b"
      [] c = "Z" -> "z"
      [] OTHER -> c

\* str.to_lowercase() / str.lower(): a string is a sequence of characters.
to_lowercase(s) == [i \in 1..Len(s) |-> to_lowercase_char(s[i])]

\* One pattern character against one text character. str.contains is called
\* without literal=True, so the pattern is a regular expression: "." matches
\* any character, every other character of the alphabet used here matches
\* itself.
regex_char_matches(p, c) == p = "." \/ p = c

\* pl.col("name").str.contains(pattern): the pattern matches somewhere in text.
str_contains(text, pattern) ==
    \E start \in 0..(Len(text) - Len(pattern)) :
        \A j \in 1..Len(pattern) : regex_char_matches(pattern[j], text[start + j])

\* A comparison with a null cell is null, and filter() drops the row.
col_ge(v, bound) == v # Null /\ v >= bound

col_le(v, bound) == v # Null /\ v <= bound

col_gt(v, bound) == v # Null /\ v > bound

\* The value of the column a frame is sorted by.
sort_key(r, sort_by) ==
    CASE sort_by = "rating" -> r.rating
      [] sort_by = "rating_count" -> r.rating_count
      [] sort_by = "first_release_date" -> r.first_release_date
      [] sort_by = "hypes" -> r.hypes

\* All orders of the elements of a sequence.
RECURSIVE Orderings(_)
Orderings(s) ==
    IF Len(s) <= 1 THEN {s}
    ELSE UNION { { <<s[i]>> \o rest :
                     rest \in Orderings(SubSeq(s, 1, i - 1) \o SubSeq(s, i + 1, Len(s))) } :
                 i \in 1..Len(s) }

\* A run of rows with equal sort keys, as polars may emit it: sort() is called
\* without maintain_order=True, so the order of equal rows is not kept.
tie_orders(group) == Orderings(group)

\* DataFrame.sort(by, descending): every frame the call may return. Rows come
\* out by key; rows with equal keys in any order tie_orders allows. The frame
\* is split around the key of its middle row: the rows that sort before it,
\* the rows that tie with it, the rows that sort after it.
RECURSIVE df_sort(_, _, _)
df_sort(df, sort_by, descending) ==
    IF Len(df) = 0 THEN {<<>>}
    ELSE LET pivot == sort_key(df[(Len(df) + 1) \div 2], sort_by)
             Before(k) == IF descending THEN k > pivot ELSE k < pivot
             IsBefore(r) == Before(sort_key(r, sort_by))
             IsTie(r) == sort_key(r, sort_by) = pivot
             IsAfter(r) == ~IsBefore(r) /\ ~IsTie(r)
         IN { head \o ties \o tail :
                head \in df_sort(SelectSeq(df, IsBefore), sort_by, descending),
                ties \in tie_orders(SelectSeq(df, IsTie)),
                tail \in df_sort(SelectSeq(df, IsAfter), sort_by, descending) }

-----------------------------------------------------------------------------
(* The filter functions and paginate *)

\* filter_data: the rows kept by df.filter(...), in frame order.
filter_data_rows(df, search, rating_range, min_count) ==
    LET keep(r) == /\ str_contains(to_lowercase(r.name), to_lowercase(search))
                   /\ col_ge(r.rating, rating_range[1])
                   /\ col_le(r.rating, rating_range[2])
                   /\ col_ge(r.rating_count, min_count)
    IN SelectSeq(df, keep)

\* filter_data: every frame the call may return.
filter_data(df, search, rating_range, min_count, sort_by, order) ==
    LET filtered == filter_data_rows(df, search, rating_range, min_count)
    IN IF order = "ASC"
       THEN df_sort(filtered, sort_by, FALSE)
       ELSE df_sort(filtered, sort_by, TRUE)

\* filter_upcoming_data: the rows kept by df.filter(...), in frame order.
filter_upcoming_rows(df, search, min_hypes, max_hypes) ==
    LET keep(r) == /\ col_gt(r.first_release_date, Today)
                   /\ str_contains(to_lowercase(r.name), to_lowercase(search))
                   /\ col_ge(r.hypes, min_hypes)
                   /\ col_le(r.hypes, max_hypes)
    IN SelectSeq(df, keep)

\* filter_upcoming_data: every frame the call may return.
filter_upcoming_data(df, search, min_hypes, max_hypes, sort_by, order) ==
    LET filtered == filter_upcoming_rows(df, search, min_hypes, max_hypes)
        descending == order = "Descending"
    IN IF sort_by = "Release Date"
       THEN df_sort(filtered, "first_release_date", descending)
       ELSE df_sort(filtered, "hypes", descending)

\* DataFrame.slice(offset, length): the rows from offset on, at most length of
\* them, none when offset is past the end; a negative offset counts from the
\* end of the frame.
df_slice(df, offset, length) ==
    LET from == IF offset < 0 THEN offset + Len(df) ELSE offset
        start == Max(0, Min(from, Len(df)))
        stop == Max(0, Min(from + length, Len(df)))
    IN SubSeq(df, start + 1, stop)

\* The same slice taken from the page's own number of rows: one page late.
paginate_page_late(df, page, rows_per_page) ==
    df_slice(df, page * rows_per_page, rows_per_page)

paginate(df, page, rows_per_page) ==
    LET start == (page - 1) * rows_per_page
    IN df_slice(df, start, rows_per_page)

\* math.ceil(a / b) for a >= 0, b > 0.
math_ceil_div(a, b) == IF a % b = 0 THEN a \div b ELSE (a \div b) + 1

\* total_pages = max(1, math.ceil(total_games / ROWS_PER_PAGE))
total_pages_of(games, rows_per_page) ==
    Max(1, math_ceil_div(games, rows_per_page))

-----------------------------------------------------------------------------
(* The filter functions on drawn inputs *)

GameRecord(id, name, rating, rating_count, first_release_date, hypes) ==
    [id |-> id, name |-> name, rating |-> rating, rating_count |-> rating_count,
     first_release_date |-> first_release_date, hypes |-> hypes]

\* The rows datasets are drawn from: equal ratings, hypes and dates (ties), a
\* null rating, a game released today and one released yesterday.
RecordPool ==
    { GameRecord(1, <<"A", "b">>, 80, 10, Today + 1, 2),
      GameRecord(2, <<"b", "a">>, 80, 5, Today + 1, 2),
      GameRecord(3, <<"B">>, Null, 0, Today, 1),
      GameRecord(4, <<"a", "B">>, 50, 10, Today - 1, 2),
      GameRecord(5, <<"b">>, 100, 0, Today + 2, 0) }

\* Sequences of at most n rows of the pool, identifiers unique.
RECURSIVE FramesUpTo(_)
FramesUpTo(n) ==
    IF n = 0 THEN {<<>>}
    ELSE LET shorter == FramesUpTo(n - 1)
             longest == { d \in shorter : Len(d) = n - 1 }
             Fresh(d, r) == \A i \in 1..Len(d) : d[i].id # r.id
         IN shorter \cup
            { Append(c[1], c[2]) :
                c \in { c \in longest \X RecordPool : Fresh(c[1], c[2]) } }

SearchTexts == { <<>>, <<"A">>, <<"a", "b">>, <<".">> }

PopularArgs ==
    [search : SearchTexts, rating_range : {<<0, 100>>, <<50, 80>>},
     min_count : {0, 10}, sort_by : {"rating_count", "rating"},
     order : {"DESC", "ASC"}]

UpcomingArgs ==
    [search : SearchTexts, min_hypes : {0, 1}, max_hypes : {0, 2},
     sort_by : {"Hypes", "Release Date"}, order : {"Descending", "Ascending"}]

FilterInit ==
    /\ PaginateIdle
    /\ SessionIdle
    /\ CacheIdle
    /\ f_df \in FramesUpTo(MaxLen)
    /\ f_fn = "none"
    /\ f_args = [search |-> <<>>]
    /\ f_out = <<>>
    /\ f_again = <<>>

\* filtered = filter_data(df, ...), then the same call on its own result.
CallFilterData ==
    \E a \in PopularArgs :
        /\ f_fn = "none"
        /\ f_fn' = "filter_data"
        /\ f_args' = a
        /\ f_out' \in filter_data(f_df, a.search, a.rating_range, a.min_count,
                                  a.sort_by, a.order)
        /\ f_again' \in filter_data(f_out', a.search, a.rating_range, a.min_count,
                                    a.sort_by, a.order)
        /\ UNCHANGED <<f_df, p_vars, ui_vars, c_vars>>

\* filtered = filter_upcoming_data(df, ...), then the same call on its own result.
CallFilterUpcomingData ==
    \E a \in UpcomingArgs :
        /\ f_fn = "none"
        /\ f_fn' = "filter_upcoming_data"
        /\ f_args' = a
        /\ f_out' \in filter_upcoming_data(f_df, a.search, a.min_hypes, a.max_hypes,
                                           a.sort_by, a.order)
        /\ f_again' \in filter_upcoming_data(f_out', a.search, a.min_hypes,
                                             a.max_hypes, a.sort_by, a.order)
        /\ UNCHANGED <<f_df, p_vars, ui_vars, c_vars>>

FilterNext == CallFilterData \/ CallFilterUpcomingData

SpecFilter == FilterInit /\ [][FilterNext]_vars

-----------------------------------------------------------------------------
(* Claims about the filter functions *)

\* s occurs in text as a plain substring.
HasSubstring(text, s) ==
    \E start \in 0..(Len(text) - Len(s)) :
        \A j \in 1..Len(s) : text[start + j] = s[j]

RowSet(df) == { df[i] : i \in 1..Len(df) }

\* The column the call sorted by, and whether it sorted downwards.
SortedBy ==
    CASE f_fn = "filter_data" -> f_args.sort_by
      [] f_args.sort_by = "Release Date" -> "first_release_date"
      [] OTHER -> "hypes"

SortedDescending ==
    IF f_fn = "filter_data" THEN f_args.order # "ASC" ELSE f_args.order = "Descending"

\* The place of the row with this identifier in the input frame.
InputIndex(id) == CHOOSE i \in 1..Len(f_df) : f_df[i].id = id

PopularExpected ==
    { r \in RowSet(f_df) :
        /\ HasSubstring(to_lowercase(r.name), to_lowercase(f_args.search))
        /\ r.rating # Null
        /\ f_args.rating_range[1] <= r.rating
        /\ r.rating <= f_args.rating_range[2]
        /\ r.rating_count >= f_args.min_count }

\* C6: filter_data returns exactly the input rows whose lowercased title
\* contains the lowercased search string, whose rating is in the inclusive
\* range and whose rating_count is at least the minimum, none added or
\* duplicated, and filtering its own output again changes nothing.
C6_FilterDataExactAndIdempotent ==
    f_fn = "filter_data" =>
        /\ RowSet(f_out) = PopularExpected
        /\ Len(f_out) = Cardinality(PopularExpected)
        /\ f_again = f_out

\* C7: the output of both filter functions is ordered by the chosen key in the
\* chosen direction, and rows with equal keys keep their input order.
C7_SortedAndStable ==
    f_fn # "none" =>
        \A i, j \in 1..Len(f_out) :
            i < j =>
                LET ki == sort_key(f_out[i], SortedBy)
                    kj == sort_key(f_out[j], SortedBy)
                IN /\ IF SortedDescending THEN ki >= kj ELSE ki <= kj
                   /\ ki = kj => InputIndex(f_out[i].id) < InputIndex(f_out[j].id)

UpcomingExpected ==
    { r \in RowSet(f_df) :
        /\ r.first_release_date > Today
        /\ HasSubstring(to_lowercase(r.name), to_lowercase(f_args.search))
        /\ f_args.min_hypes <= r.hypes
        /\ r.hypes <= f_args.max_hypes }

\* C8: filter_upcoming_data returns exactly the rows released strictly after
\* today whose lowercased title contains the lowercased search string and
\* whose hypes are in the inclusive range; no row dated today or earlier.
C8_FilterUpcomingExact ==
    f_fn = "filter_upcoming_data" =>
        /\ RowSet(f_out) = UpcomingExpected
        /\ Len(f_out) = Cardinality(UpcomingExpected)
        /\ \A i \in 1..Len(f_out) : f_out[i].first_release_date > Today

-----------------------------------------------------------------------------
(* paginate on drawn inputs *)

\* Longest frame, highest page and largest page size drawn for paginate.
MaxRows == 4

MaxPage == 4

MaxPageSize == 3

\* Frames of n rows, each row standing as its identifier, in every order.
RowOrders(n) == Orderings([i \in 1..n |-> i])

PaginateInit ==
    /\ FilterIdle
    /\ SessionIdle
    /\ CacheIdle
    /\ p_df \in UNION { RowOrders(n) : n \in 0..MaxRows }
    /\ p_page \in 1..MaxPage
    /\ p_rows \in 1..MaxPageSize
    /\ p_out = <<>>
    /\ p_called = FALSE

\* page_df = paginate(filtered_df, page, rows_per_page)
CallPaginate ==
    /\ ~p_called
    /\ p_called' = TRUE
    /\ p_out' = paginate(p_df, p_page, p_rows)
    /\ UNCHANGED <<p_df, p_page, p_rows, f_vars, ui_vars, c_vars>>

PaginateNext == CallPaginate

SpecPaginate == PaginateInit /\ [][PaginateNext]_vars

\* Pages first..last of a frame, one after the other.
RECURSIVE PagesJoined(_, _, _, _)
PagesJoined(df, first, last, rows_per_page) ==
    IF first > last THEN <<>>
    ELSE paginate(df, first, rows_per_page)
         \o PagesJoined(df, first + 1, last, rows_per_page)

\* C5: for page >= 1 paginate returns exactly the rows at positions
\* [(page-1)*rows, page*rows) that exist in the frame: never more than rows of
\* them, none when the page is past the last one, and pages 1..total_pages
\* joined in order are the frame itself.
C5_PaginateIsTheClippedSlice ==
    p_called =>
        LET lo == (p_page - 1) * p_rows
            hi == p_page * p_rows
            positions == { i \in 1..Len(p_df) : lo < i /\ i <= hi }
        IN /\ Len(p_out) = Cardinality(positions)
           /\ \A k \in 1..Len(p_out) : p_out[k] = p_df[lo + k]
           /\ Len(p_out) <= p_rows
           /\ p_page > total_pages_of(Len(p_df), p_rows) => p_out = <<>>
           /\ PagesJoined(p_df, 1, total_pages_of(Len(p_df), p_rows), p_rows) = p_df

\* A last page that is only partly filled.
C5_Witness ==
    /\ p_called
    /\ p_page >= 2
    /\ Len(p_out) >= 1
    /\ Len(p_out) < p_rows

-----------------------------------------------------------------------------
(* The dashboard session: one action is one run of the script *)

\* Rows in the table the session loads.
MaxGames == 45

\* Rows 1 and 2 share every sort key; all other rows differ in each.
Spread(i) == IF i = 1 THEN 2 ELSE i

\* Row i of the loaded table: every second title holds an "a", row 30 has no
\* rating, rows 1..25 are rated 50 or more, rows up to 43 are still to be
\* released (the next is released today, the rest yesterday), and every row
\* has at least one hype.
LoadedRow(i) ==
    GameRecord(i,
               IF i % 2 = 0 THEN <<"A", "b">> ELSE <<"B">>,
               IF i = 30 THEN Null ELSE 100 - 2 * Spread(i),
               Spread(i) - 2,
               IF i <= 43 THEN Today + Spread(i) ELSE IF i = 44 THEN Today ELSE Today - 1,
               50 - Spread(i))

\* load_full_dataset(): the cached table.
load_full_dataset == [i \in 1..MaxGames |-> LoadedRow(i)]

\* get_max_hypes: the largest hypes of the rows released after today (null
\* when there is none).
get_max_hypes(df) ==
    LET upcoming == { df[i].hypes : i \in { j \in 1..Len(df) : df[j].first_release_date > Today } }
    IN IF upcoming = {} THEN Null ELSE CHOOSE h \in upcoming : \A o \in upcoming : o <= h

\* The sidebar widgets of the popular view as first drawn.
PopularDefaults ==
    [search_popular |-> <<>>, rating_range_popular |-> <<0, 100>>,
     min_count_popular |-> 0, sort_by_popular |-> "rating_count",
     order_popular |-> "Descending"]

\* max_hypes = get_max_hypes(full_df), on the loaded table.
max_hypes == get_max_hypes(load_full_dataset)

\* The sidebar widgets of the upcoming view as first drawn.
UpcomingDefaults ==
    [search_upcoming |-> <<>>, hypes_range |-> <<0, max_hypes>>,
     sort_by_upcoming |-> "Hypes", order_upcoming |-> "Descending"]

\* What the user types or picks.
SearchInputs == { <<>>, <<"A">> }

RatingRanges == { <<0, 100>>, <<50, 100>> }

MinCounts == { 0, 50 }

HypesRanges == { <<0, max_hypes>>, <<0, 0>> }

\* order = "DESC" if <radio> == "Descending" else "ASC"
popular_order(order_popular) == IF order_popular = "Descending" THEN "DESC" ELSE "ASC"

\* The session-state key of the upcoming view's page number, and the popular
\* view's key used for it as well.
shared_page_key == "page_num"

upcoming_page_key == "upcoming_page_num"

\* "Previous" without its page_num > 1 test.
previous_unguarded(page) == page - 1

\* if st.button("Previous") and page_num > 1: page_num -= 1
previous_clicked(page) == IF page > 1 THEN page - 1 ELSE page

\* if st.button("Next") and page_num < total_pages: page_num += 1
next_clicked(page, pages) == IF page < pages THEN page + 1 ELSE page

RowIds(df) == [i \in 1..Len(df) |-> df[i].id]

\* Every setting of the popular sidebar with the frames
\* filter_data(full_df, search, rating_range, min_count, sort_by, order) may
\* return for it on the loaded table, evaluated once.
popular_frames ==
    { <<w, filter_data(load_full_dataset, w.search_popular, w.rating_range_popular,
                       w.min_count_popular, w.sort_by_popular,
                       popular_order(w.order_popular))>> :
        w \in [search_popular : SearchInputs, rating_range_popular : RatingRanges,
               min_count_popular : MinCounts,
               sort_by_popular : {"rating_count", "rating"},
               order_popular : {"Descending", "Ascending"}] }

\* The same for the upcoming sidebar and filter_upcoming_data(full_df, ...).
upcoming_frames ==
    { <<w, filter_upcoming_data(load_full_dataset, w.search_upcoming, w.hypes_range[1],
                                w.hypes_range[2], w.sort_by_upcoming,
                                w.order_upcoming)>> :
        w \in [search_upcoming : SearchInputs, hypes_range : HypesRanges,
               sort_by_upcoming : {"Hypes", "Release Date"},
               order_upcoming : {"Descending", "Ascending"}] }

FramesFor(table, w) == (CHOOSE entry \in table : entry[1] = w)[2]

\* The rest of a view once filtered_df is known: total_pages, the page number
\* in session state (created as 1, moved by the button clicked in this run),
\* the "Page x of y" label and the page of cards.
DrawView(key, filtered_df, clicked) ==
    LET games == Len(filtered_df)
        pages == total_pages_of(games, ROWS_PER_PAGE)
        created == IF key \in DOMAIN session_state
                   THEN session_state
                   ELSE session_state @@ (key :> 1)
        after_prev == IF clicked = "prev"
                      THEN [created EXCEPT ![key] = previous_clicked(@)]
                      ELSE created
        after_next == IF clicked = "next"
                      THEN [after_prev EXCEPT ![key] = next_clicked(@, pages)]
                      ELSE after_prev
    IN /\ total_games' = games
       /\ total_pages' = pages
       /\ session_state' = after_next
       /\ page_label' = <<after_next[key], pages>>
       /\ page_df' = RowIds(paginate(filtered_df, after_next[key], ROWS_PER_PAGE))

\* if tab_choice == "Popular Games": the popular view.
PopularView(w, clicked) ==
    \E filtered_df \in FramesFor(popular_frames, w) :
        DrawView("page_num", filtered_df, clicked)

\* elif tab_choice == "Upcoming Releases": the upcoming view.
UpcomingView(w, clicked) ==
    \E filtered_df \in FramesFor(upcoming_frames, w) :
        DrawView(upcoming_page_key, filtered_df, clicked)

\* One run of the script with the sidebar as the user left it. Only the
\* selected view's widgets are drawn; the other view's are not, so Streamlit
\* drops their values and they start from their defaults when drawn again.
\* The page numbers are plain session-state entries and stay.
ScriptRun(view, pw, uw, clicked) ==
    /\ full_df' = load_full_dataset
    /\ tab_choice' = view
    /\ event' = clicked
    /\ IF view = "Popular"
       THEN /\ popular_widgets' = pw
            /\ upcoming_widgets' = UpcomingDefaults
            /\ prev_render' = [prev_render EXCEPT !["Popular"] = {pw}]
            /\ PopularView(pw, clicked)
       ELSE /\ upcoming_widgets' = uw
            /\ popular_widgets' = PopularDefaults
            /\ prev_render' = [prev_render EXCEPT !["Upcoming"] = {uw}]
            /\ UpcomingView(uw, clicked)

\* The first run of a session: the radio's index=0 selects the upcoming view.
SessionInit ==
    /\ FilterIdle
    /\ PaginateIdle
    /\ CacheIdle
    /\ full_df = load_full_dataset
    /\ tab_choice = "Upcoming"
    /\ event = "run"
    /\ popular_widgets = PopularDefaults
    /\ upcoming_widgets = UpcomingDefaults
    /\ prev_render = [v \in {"Popular", "Upcoming"} |->
                        IF v = "Upcoming" THEN {upcoming_widgets} ELSE {}]
    /\ session_state = (upcoming_page_key :> 1)
    /\ \E filtered_df \in FramesFor(upcoming_frames, UpcomingDefaults) :
          /\ total_games = Len(filtered_df)
          /\ total_pages = total_pages_of(total_games, ROWS_PER_PAGE)
          /\ page_label = <<1, total_pages>>
          /\ page_df = RowIds(paginate(filtered_df, 1, ROWS_PER_PAGE))

Run(view, pw, uw, clicked) ==
    ScriptRun(view, pw, uw, clicked) /\ UNCHANGED <<f_vars, p_vars, c_vars>>

\* The user picks the other view in the "Select View" radio.
SelectView ==
    \E view \in {"Popular", "Upcoming"} :
        /\ view # tab_choice
        /\ Run(view, popular_widgets, upcoming_widgets, "run")

\* The user edits one widget of the popular sidebar.
SetSearchPopular ==
    \E v \in SearchInputs :
        /\ tab_choice = "Popular" /\ v # popular_widgets.search_popular
        /\ Run("Popular", [popular_widgets EXCEPT !.search_popular = v], upcoming_widgets, "run")

SetRatingRange ==
    \E v \in RatingRanges :
        /\ tab_choice = "Popular" /\ v # popular_widgets.rating_range_popular
        /\ Run("Popular", [popular_widgets EXCEPT !.rating_range_popular = v], upcoming_widgets, "run")

SetMinCount ==
    \E v \in MinCounts :
        /\ tab_choice = "Popular" /\ v # popular_widgets.min_count_popular
        /\ Run("Popular", [popular_widgets EXCEPT !.min_count_popular = v], upcoming_widgets, "run")

SetSortByPopular ==
    \E v \in {"rating_count", "rating"} :
        /\ tab_choice = "Popular" /\ v # popular_widgets.sort_by_popular
        /\ Run("Popular", [popular_widgets EXCEPT !.sort_by_popular = v], upcoming_widgets, "run")

SetOrderPopular ==
    \E v \in {"Descending", "Ascending"} :
        /\ tab_choice = "Popular" /\ v # popular_widgets.order_popular
        /\ Run("Popular", [popular_widgets EXCEPT !.order_popular = v], upcoming_widgets, "run")

\* The user edits one widget of the upcoming sidebar.
SetSearchUpcoming ==
    \E v \in SearchInputs :
        /\ tab_choice = "Upcoming" /\ v # upcoming_widgets.search_upcoming
        /\ Run("Upcoming", popular_widgets, [upcoming_widgets EXCEPT !.search_upcoming = v], "run")

SetHypesRange ==
    \E v \in HypesRanges :
        /\ tab_choice = "Upcoming" /\ v # upcoming_widgets.hypes_range
        /\ Run("Upcoming", popular_widgets, [upcoming_widgets EXCEPT !.hypes_range = v], "run")

SetSortByUpcoming ==
    \E v \in {"Hypes", "Release Date"} :
        /\ tab_choice = "Upcoming" /\ v # upcoming_widgets.sort_by_upcoming
        /\ Run("Upcoming", popular_widgets, [upcoming_widgets EXCEPT !.sort_by_upcoming = v], "run")

SetOrderUpcoming ==
    \E v \in {"Descending", "Ascending"} :
        /\ tab_choice = "Upcoming" /\ v # upcoming_widgets.order_upcoming
        /\ Run("Upcoming", popular_widgets, [upcoming_widgets EXCEPT !.order_upcoming = v], "run")

\* The user clicks a pagination button of the view on screen.
ClickPrevious ==
    /\ tab_choice \in {"Popular", "Upcoming"}
    /\ Run(tab_choice, popular_widgets, upcoming_widgets, "prev")

ClickNext ==
    /\ tab_choice \in {"Popular", "Upcoming"}
    /\ Run(tab_choice, popular_widgets, upcoming_widgets, "next")

SessionNext ==
    \/ SelectView
    \/ SetSearchPopular
    \/ SetRatingRange
    \/ SetMinCount
    \/ SetSortByPopular
    \/ SetOrderPopular
    \/ SetSearchUpcoming
    \/ SetHypesRange
    \/ SetSortByUpcoming
    \/ SetOrderUpcoming
    \/ ClickPrevious
    \/ ClickNext

Spec == SessionInit /\ [][SessionNext]_vars

-----------------------------------------------------------------------------
(* Claims about the session *)

\* The session-state key that holds a view's page number.
PageKeyOf(view) == IF view = "Popular" THEN "page_num" ELSE "upcoming_page_num"

\* C1: whenever a view is drawn with filter parameters other than those of
\* its previous drawing, its page number is 1 in that run.
C1_FilterChangeResetsPage ==
    [][\A view \in {"Popular", "Upcoming"} :
          (/\ tab_choice' = view
           /\ prev_render[view] # {}
           /\ prev_render'[view] # prev_render[view])
          => session_state'[PageKeyOf(view)] = 1]_vars

\* C2: a click on "next" sets the page of the view on screen to
\* min(total_pages, page + 1), total_pages being that of the run's result.
C2_NextIsMinOfTotalAndPagePlusOne ==
    [][event' = "next" =>
          session_state'[PageKeyOf(tab_choice')] =
              Min(total_pages', session_state[PageKeyOf(tab_choice)] + 1)]_vars

\* C3: a page number is 1 when it is created, "previous" sets it to
\* max(1, page - 1), and no run leaves a page number below 1.
C3_PageStartsAtOneAndStaysPositive ==
    /\ \A key \in DOMAIN session_state : session_state[key] = 1
    /\ [][/\ \A key \in DOMAIN session_state' :
               /\ session_state'[key] >= 1
               /\ key \notin DOMAIN session_state => session_state'[key] = 1
          /\ event' = "prev" =>
               session_state'[PageKeyOf(tab_choice')] =
                   Max(1, session_state[PageKeyOf(tab_choice)] - 1)]_vars

\* "Previous" has been clicked on page 1 of a result of several pages.
C3_Witness ==
    /\ event = "prev"
    /\ total_pages >= 2
    /\ session_state[PageKeyOf(tab_choice)] = 1

\* C4: when a view's filtered result is empty the run shows no card, has
\* total_pages = 1 and labels the page "Page 1 of 1".
C4_EmptyResultIsPageOneOfOne ==
    total_games = 0 =>
        /\ page_df = <<>>
        /\ total_pages = 1
        /\ page_label = <<1, 1>>

Kept(key) ==
    /\ (key \in DOMAIN session_state') = (key \in DOMAIN session_state)
    /\ key \in DOMAIN session_state => session_state'[key] = session_state[key]

\* C10: a run that draws one view (a click, a filter change, a rerun) leaves
\* the other view's page number as it was, and a run that switches the view
\* changes no page number.
C10_ViewsKeepTheirOwnPage ==
    [][/\ tab_choice' = "Popular" => Kept("upcoming_page_num")
       /\ tab_choice' = "Upcoming" => Kept("page_num")
       /\ tab_choice' # tab_choice =>
            \A key \in DOMAIN session_state : session_state'[key] = session_state[key]]_vars

\* Back on the upcoming view, left on page 3, after paging the popular view to 2.
C10_Witness ==
    /\ tab_choice = "Upcoming"
    /\ event = "run"
    /\ DOMAIN session_state = {"page_num", "upcoming_page_num"}
    /\ session_state["page_num"] = 2
    /\ session_state["upcoming_page_num"] = 3

-----------------------------------------------------------------------------
(* The dataset cache: load_full_dataset under @st.cache_data(ttl=86400) *)

\* ttl=86400, in seconds.
ttl == 86400

\* Script runs (one per session) that may call load_full_dataset at once.
NumCallers == 2

\* Clock steps and reloads of the warehouse table explored.
MaxTicks == 3

MaxReloads == 2

Callers == 1..NumCallers

\* An entry counted as valid still at the very second it reaches the ttl.
is_fresh_at_ttl(entry, now) == now - entry.stored_at <= ttl

\* A cached entry is valid while it is younger than the ttl.
is_fresh(entry, now) == now - entry.stored_at < ttl

\* The valid entry a lookup finds, if any.
cache_lookup == { e \in c_cache : is_fresh(e, c_now) }

\* The age of the entry a lookup looks at, if there is one.
EntryAge == { c_now - e.stored_at : e \in c_cache }

CacheInit ==
    /\ FilterIdle
    /\ PaginateIdle
    /\ SessionIdle
    /\ c_now = 0
    /\ c_ticks = 0
    /\ c_table = 1
    /\ c_cache = {}
    /\ c_lock = 0
    /\ c_pc = [c \in Callers |-> "idle"]
    /\ c_seen = [c \in Callers |-> {}]
    /\ c_last = [how |-> "none"]
    /\ c_served = {}

\* full_df = load_full_dataset(), a valid entry is cached: it is returned.
CallHit(c) ==
    /\ c_pc[c] = "idle"
    /\ \E e \in cache_lookup :
          /\ c_last' = [how |-> "hit", value |-> e.value, age |-> EntryAge, waited |-> FALSE]
          /\ c_served' = c_served \cup {e.value}
    /\ UNCHANGED <<c_now, c_ticks, c_table, c_cache, c_lock, c_pc, c_seen>>
    /\ UNCHANGED <<f_vars, p_vars, ui_vars>>

\* full_df = load_full_dataset(), nothing valid is cached: the caller goes for
\* the lock that guards the computation of the value.
CallMiss(c) ==
    /\ c_pc[c] = "idle"
    /\ cache_lookup = {}
    /\ c_pc' = [c_pc EXCEPT ![c] = "waiting"]
    /\ UNCHANGED <<c_now, c_ticks, c_table, c_cache, c_lock, c_seen, c_last, c_served>>
    /\ UNCHANGED <<f_vars, p_vars, ui_vars>>

\* The lock is taken and the cache read again: another caller has stored the
\* value meanwhile, and it is returned.
LockedHit(c) ==
    /\ c_pc[c] = "waiting"
    /\ c_lock = 0
    /\ \E e \in cache_lookup :
          /\ c_last' = [how |-> "hit", value |-> e.value, age |-> EntryAge, waited |-> TRUE]
          /\ c_served' = c_served \cup {e.value}
    /\ c_pc' = [c_pc EXCEPT ![c] = "idle"]
    /\ UNCHANGED <<c_now, c_ticks, c_table, c_cache, c_lock, c_seen>>
    /\ UNCHANGED <<f_vars, p_vars, ui_vars>>

\* The lock is taken and the cache read again: still nothing valid, so the
\* function body runs and sends the query.
LockedMiss(c) ==
    /\ c_pc[c] = "waiting"
    /\ c_lock = 0
    /\ cache_lookup = {}
    /\ c_lock' = c
    /\ c_pc' = [c_pc EXCEPT ![c] = "computing"]
    /\ c_seen' = [c_seen EXCEPT ![c] = EntryAge]
    /\ UNCHANGED <<c_now, c_ticks, c_table, c_cache, c_last, c_served>>
    /\ UNCHANGED <<f_vars, p_vars, ui_vars>>

\* client.query(query).to_dataframe() returns the table: the frame replaces
\* the cache entry, the lock is released and the frame is returned.
QueryReturns(c) ==
    /\ c_pc[c] = "computing"
    /\ c_cache' = {[value |-> c_table, stored_at |-> c_now]}
    /\ c_lock' = 0
    /\ c_pc' = [c_pc EXCEPT ![c] = "idle"]
    /\ c_last' = [how |-> "fetched", value |-> c_table, age |-> c_seen[c], waited |-> TRUE]
    /\ c_served' = IF cache_lookup = {} THEN {c_table} ELSE c_served \cup {c_table}
    /\ UNCHANGED <<c_now, c_ticks, c_table, c_seen>>
    /\ UNCHANGED <<f_vars, p_vars, ui_vars>>

\* The query raises: nothing is cached, the lock is released and the
\* exception ends the caller's script run.
QueryRaises(c) ==
    /\ c_pc[c] = "computing"
    /\ c_lock' = 0
    /\ c_pc' = [c_pc EXCEPT ![c] = "idle"]
    /\ c_last' = [how |-> "raised", value |-> 0, age |-> c_seen[c], waited |-> TRUE]
    /\ UNCHANGED <<c_now, c_ticks, c_table, c_cache, c_seen, c_served>>
    /\ UNCHANGED <<f_vars, p_vars, ui_vars>>

\* Time passes: a second, or a second less than the ttl.
Tick ==
    \E d \in {1, ttl - 1} :
        /\ c_ticks < MaxTicks
        /\ c_ticks' = c_ticks + 1
        /\ c_now' = c_now + d
        /\ UNCHANGED <<c_table, c_cache, c_lock, c_pc, c_seen, c_last, c_served>>
        /\ UNCHANGED <<f_vars, p_vars, ui_vars>>

\* The pipeline loads new rows into the warehouse table.
TableReloaded ==
    /\ c_table <= MaxReloads
    /\ c_table' = c_table + 1
    /\ UNCHANGED <<c_now, c_ticks, c_cache, c_lock, c_pc, c_seen, c_last, c_served>>
    /\ UNCHANGED <<f_vars, p_vars, ui_vars>>

CacheNext ==
    \/ \E c \in Callers : CallHit(c)
    \/ \E c \in Callers : CallMiss(c)
    \/ \E c \in Callers : LockedHit(c)
    \/ \E c \in Callers : LockedMiss(c)
    \/ \E c \in Callers : QueryReturns(c)
    \/ \E c \in Callers : QueryRaises(c)
    \/ Tick
    \/ TableReloaded

SpecCache == CacheInit /\ [][CacheNext]_vars

\* C9: load_full_dataset returns the cached snapshot, without a query, when
\* one younger than 24 hours exists, and otherwise sends one query and
\* replaces the cache; while a snapshot is valid no query is under way and
\* every caller is handed that same snapshot.
C9_OneFetchPerValidityWindow ==
    /\ c_last.how = "hit" =>
         /\ c_last.age # {}
         /\ \A age \in c_last.age : age < 86400
    /\ c_last.how = "fetched" =>
         /\ \A age \in c_last.age : age >= 86400
         /\ c_cache # {}
         /\ \A e \in c_cache : e.value = c_last.value
    /\ Cardinality({ c \in Callers : c_pc[c] = "computing" }) <= 1
    /\ \A e \in c_cache :
         c_now - e.stored_at < 86400 =>
             /\ \A c \in Callers : c_pc[c] # "computing"
             /\ c_served \subseteq {e.value}

\* A caller that missed, waited for the lock while another fetched, and was
\* then handed the other's snapshot although the table had changed since.
C9_Witness ==
    /\ c_last.how = "hit"
    /\ c_last.waited
    /\ \E e \in c_cache : e.value = c_last.value /\ e.value # c_table

====
